---- MODULE Spec2Model ----
(***************************************************************************)
(* Model of the Gemini chat client (src/index.tsx, src/unnamed/part_000).  *)
(*                                                                         *)
(* One action is one event-loop task of the browser: the handler code up   *)
(* to its next await, the React state updates it queues, the render that   *)
(* follows and the effects of that render (the history effect that         *)
(* recreates the chat session, the persist effect that saves the list).    *)
(* Each chunk of a stream is consumed in a task of its own; chunks         *)
(* consumed back to back before React renders leave the same list as the   *)
(* same chunks rendered one by one.                                        *)
(*                                                                         *)
(* ChatComponent is mounted only while a user is signed in. A sign-out     *)
(* unmounts it, and a handleSubmit still awaiting goes on with its own     *)
(* closure (stream field orphan): its setMessages is App's and still       *)
(* acts, its setIsLoading acts on nothing. The component mounted by the    *)
(* next sign-in starts with isLoading = false.                             *)
(*                                                                         *)
(* Objects are values, except the one object whose identity the code       *)
(* shares: the initialWelcomeMessage the auth callback closed over, which  *)
(* every sign-in without stored history puts into the list and which the   *)
(* in-place write of line 286 can reach (welcomeText, aliased).            *)
(*                                                                         *)
(* An updater that throws does so while React renders App; there is no     *)
(* error boundary, so React unmounts the root (crashed). Nothing the       *)
(* handlers still do can then be observed, and the model stops there.      *)
(*                                                                         *)
(* JavaScript strings are TLA+ strings. undefined and null are the two     *)
(* sentinels Undefined and Null, which are not values of any text or URL   *)
(* the model draws.                                                        *)
(***************************************************************************)
EXTENDS Naturals, Sequences, FiniteSets, TLC

\* ------------------------------------------------------------------ bounds

\* Number of accounts (uids 1..NumUids).
NumUids == 2
\* Number of accepted submits in one run (each opens one stream).
MaxStreams == 2
\* Number of fragments one stream delivers before it must complete or fail.
MaxFragments == 2
\* Longest Message list fed to the pure functions in SpecPure.
MaxLen == 3

\* ------------------------------------------------------- JavaScript values

Undefined == "<undefined>"
Null == "<null>"
NoUser == 0
Uids == 1..NumUids

\* JavaScript truthiness of a string-or-nullish value (msg.text, chunk.text).
Truthy(v) == v \notin {Undefined, Null, ""}

\* String.prototype.startsWith
StartsWith(s, p) == Len(s) >= Len(p) /\ SubSeq(s, 1, Len(p)) = p

\* String.prototype.trim over the whitespace the model draws (the space).
RECURSIVE TrimLeft(_)
TrimLeft(s) ==
    IF Len(s) > 0 /\ SubSeq(s, 1, 1) = " " THEN TrimLeft(SubSeq(s, 2, Len(s))) ELSE s

RECURSIVE TrimRight(_)
TrimRight(s) ==
    IF Len(s) > 0 /\ SubSeq(s, Len(s), Len(s)) = " "
    THEN TrimRight(SubSeq(s, 1, Len(s) - 1)) ELSE s

Trim(s) == TrimRight(TrimLeft(s))

\* A ChatMessage: role, optional text, optional imageUrl (Undefined = key absent).
ChatMessage(role, text, imageUrl) == [role |-> role, text |-> text, imageUrl |-> imageUrl]

GreetingText == "Hello there! I'm your Gemini-powered assistant. You can ask me questions, upload an image, or even use your voice. How can I help you today?"
FallbackText == "I'm sorry, I couldn't generate a response."
ApologyText == "Sorry, something went wrong. Please try again."

\* The object URL URL.createObjectURL returns for the chosen file.
BlobUrl == "blob:1"

\* ---------------------------------------------------- History Reconstructor

\* Mutant of history: the filter keeps every message whose text key is present.
historyKeepsEmptyText(msgs) ==
    LET kept == SelectSeq(msgs, LAMBDA m : m.text # Undefined)
    IN  [i \in 1..Len(kept) |-> [role |-> kept[i].role, parts |-> <<[text |-> kept[i].text]>>]]

\* messages.filter(msg => msg.text).map(msg => ({role, parts: [{text}]}))
history(msgs) ==
    LET kept == SelectSeq(msgs, LAMBDA m : Truthy(m.text))
    IN  [i \in 1..Len(kept) |-> [role |-> kept[i].role, parts |-> <<[text |-> kept[i].text]>>]]

\* createChat(history): a chat session, identified by the history it starts from.
createChat(h) == [open |-> TRUE, history |-> h]

\* geminiChat.current before the history effect has run, or with no
\* ChatComponent mounted.
NoChat == [open |-> FALSE, history |-> <<>>]

\* ------------------------------------------------------- JSON and storage

\* JSON.stringify of one value of a message field: a (type, value) pair.
JsonValue(v) == IF v = Null THEN <<"null", "">> ELSE <<"string", v>>

\* JSON.stringify of one message object: its keys in insertion order, a key
\* whose value is undefined is left out.
JsonObject(m) ==
    LET field(k) == IF m[k] = Undefined THEN <<>> ELSE << <<k>> \o JsonValue(m[k]) >>
    IN  field("role") \o field("text") \o field("imageUrl")

JsonStringify(msgs) == [i \in 1..Len(msgs) |-> JsonObject(msgs[i])]

\* Reading key k of a parsed object: the value of its last member named k,
\* undefined when there is none.
RECURSIVE JsonGet(_, _)
JsonGet(obj, k) ==
    IF obj = <<>> THEN Undefined
    ELSE LET last == obj[Len(obj)]
         IN  IF last[1] = k
             THEN (IF last[2] = "null" THEN Null ELSE last[3])
             ELSE JsonGet(SubSeq(obj, 1, Len(obj) - 1), k)

JsonParse(text) ==
    [i \in 1..Len(text) |->
        ChatMessage(JsonGet(text[i], "role"), JsonGet(text[i], "text"), JsonGet(text[i], "imageUrl"))]

\* What localStorage holds under one key: nothing, a string that is not
\* JSON, or the JSON text of an array of message objects.
NoItem == [kind |-> "none", text |-> <<>>]
Malformed == [kind |-> "malformed", text |-> <<>>]
Item(text) == [kind |-> "json", text |-> text]

\* Mutant of Storable: every image reference is blanked, transient or not.
StorableBlanksAll(msg) ==
    IF msg.imageUrl \notin {Undefined, Null} THEN [msg EXCEPT !.imageUrl = ""] ELSE msg

\* msg.imageUrl?.startsWith('blob:') ? { ...msg, imageUrl: '' } : msg
Storable(msg) ==
    IF msg.imageUrl \notin {Undefined, Null} /\ StartsWith(msg.imageUrl, "blob:")
    THEN [msg EXCEPT !.imageUrl = ""]
    ELSE msg

storableHistory(msgs) == [i \in 1..Len(msgs) |-> Storable(msgs[i])]

\* saveChatHistory(uid, messages) on the store st; setItem throwing (ok =
\* FALSE) is caught and leaves the store as it was.
saveChatHistory(st, uid, msgs, ok) ==
    IF ok THEN [st EXCEPT ![uid] = Item(JsonStringify(storableHistory(msgs)))] ELSE st

\* loadChatHistory(uid) on the store st.
loadChatHistory(st, uid) ==
    CASE st[uid].kind = "none" -> <<>>
      [] st[uid].kind = "malformed" -> <<>>
      [] OTHER -> JsonParse(st[uid].text)

\* ------------------------------------------------------------------- state

VARIABLES
    user,         \* App state `user`: the signed-in uid, NoUser for null
    messages,     \* App state `messages`
    welcomeText,  \* text of the initialWelcomeMessage object the auth callback closed over
    aliased,      \* messages[1] is that very object (set by sign-in with no history)
    storage,      \* localStorage: uid -> item under gemini-chat-history-<uid>
    writeOk,      \* the last localStorage.setItem did not throw
    crashed,      \* a render threw: React has unmounted the root
    isLoading,    \* ChatComponent state `isLoading` of the mounted component
    geminiChat,   \* geminiChat.current of the mounted component
    streams,      \* the handleSubmit invocations: stream id -> its locals and position
    pIn, pUid, pCtx, pLoaded, pPc   \* SpecPure: inputs and results of the pure functions

appVars == <<user, messages, welcomeText, aliased, storage, writeOk, crashed,
             isLoading, geminiChat, streams>>
pureVars == <<pIn, pUid, pCtx, pLoaded, pPc>>
vars == <<user, messages, welcomeText, aliased, storage, writeOk, crashed,
          isLoading, geminiChat, streams, pIn, pUid, pCtx, pLoaded, pPc>>

StreamIds == 1..MaxStreams

\* The k-th fragment the service has to deliver ("Hel", "lo", " there", ...);
\* a chunk may also carry no text.
Script == <<"Hel", "lo", " there">>
Fragment(k) == IF k <= Len(Script) THEN Script[k] ELSE "!"


\* One invocation of handleSubmit that has not started.
IdleStream ==
    [pc |-> "idle",          \* idle, convert (awaiting fileToBase64), stream, done
     orphan |-> FALSE,       \* its ChatComponent has been unmounted
     ref |-> NoChat,         \* geminiChat.current of that unmounted component
     session |-> NoChat,     \* the chat sendMessageStream was called on
     owner |-> NoUser,       \* the account signed in when it was submitted
     prior |-> <<>>,         \* the context of the messages that preceded its turn
     modelResponse |-> "",   \* let modelResponse
     firstChunk |-> TRUE,    \* let firstChunk
     received |-> <<>>,      \* chunk.text of the chunks the stream has yielded
     outcome |-> "none",     \* none, completed (loop ended), failed (catch ran)
     appended |-> 0,         \* model Messages this invocation has appended
     at |-> 0]               \* index in messages of its streamed Message, 0 if none

\* const initialWelcomeMessage = { role: 'model', text: `Hello there! ...` }
initialWelcomeMessage == ChatMessage("model", GreetingText, Undefined)

Init ==
    /\ user = NoUser
    /\ messages = <<>>
    /\ welcomeText = GreetingText
    /\ aliased = FALSE
    /\ storage \in [Uids -> {NoItem, Malformed}]
    /\ writeOk = TRUE
    /\ crashed = FALSE
    /\ isLoading = FALSE
    /\ geminiChat = NoChat
    /\ streams = [s \in StreamIds |-> IdleStream]
    /\ pIn = <<>> /\ pUid = 1 /\ pCtx = <<>> /\ pLoaded = <<>> /\ pPc = "off"

\* ----------------------------------------------------------------- effects

\* The history effect of ChatComponent after a render with list msgs:
\* geminiChat.current = createChat(history). No ChatComponent is mounted
\* while nobody is signed in.
HistoryEffect(u, msgs) == IF u # NoUser THEN createChat(history(msgs)) ELSE NoChat

\* Mutant of PersistEffect: the effect saves only a list that ends with a user
\* Message (as if it depended on submits, not on every change of the list).
PersistEffectOnSubmitOnly(st, u, msgs, ok) ==
    IF u # NoUser /\ Len(msgs) > 0 /\ msgs[Len(msgs)].role = "user"
    THEN saveChatHistory(st, u, msgs, ok) ELSE st

\* The persist effect of App after a render with list msgs and user u.
PersistEffect(st, u, msgs, ok) == IF u # NoUser THEN saveChatHistory(st, u, msgs, ok) ELSE st

\* A render of App with the new list, and its effects.
Commit(u, msgs, ok) ==
    /\ messages' = msgs
    /\ geminiChat' = HistoryEffect(u, msgs)
    /\ storage' = PersistEffect(storage, u, msgs, ok)
    /\ writeOk' = IF u # NoUser THEN ok ELSE writeOk

\* The ghost index of each stream's own message is lost when the list is replaced.
Forget(ss) == [s \in StreamIds |-> [ss[s] EXCEPT !.at = 0]]

\* ------------------------------------------------------------ auth changes

\* auth.onAuthStateChanged callback with a user: setUser, then the stored
\* history or the greeting; ChatComponent mounts with fresh state.
SignIn(u, ok) ==
    /\ ~crashed /\ user = NoUser
    /\ LET hist == loadChatHistory(storage, u)
           msgs == IF Len(hist) > 0 THEN hist
                   ELSE <<[initialWelcomeMessage EXCEPT !.text = welcomeText]>>
       IN  /\ user' = u
           /\ aliased' = (Len(hist) = 0)
           /\ Commit(u, msgs, ok)
    /\ isLoading' = FALSE
    /\ streams' = Forget(streams)
    /\ UNCHANGED <<welcomeText, crashed>>
    /\ UNCHANGED pureVars

\* handleLogout, then the callback with null: setUser(null), setMessages([]).
\* ChatComponent unmounts; a handleSubmit in flight keeps its own ref object.
SignOut ==
    /\ ~crashed /\ user # NoUser
    /\ user' = NoUser
    /\ aliased' = FALSE
    /\ Commit(NoUser, <<>>, TRUE)
    /\ isLoading' = FALSE
    /\ streams' = [s \in StreamIds |->
                     IF streams[s].pc \in {"convert", "stream"} /\ ~streams[s].orphan
                     THEN [streams[s] EXCEPT !.orphan = TRUE, !.ref = geminiChat, !.at = 0]
                     ELSE [streams[s] EXCEPT !.at = 0]]
    /\ UNCHANGED <<welcomeText, crashed>>
    /\ UNCHANGED pureVars

\* handleNewChat: setMessages([initialWelcomeMessage]) with this render's object.
handleNewChat(ok) ==
    /\ ~crashed /\ user # NoUser
    /\ aliased' = FALSE
    /\ Commit(user, <<initialWelcomeMessage>>, ok)
    /\ streams' = Forget(streams)
    /\ UNCHANGED <<user, welcomeText, crashed, isLoading>>
    /\ UNCHANGED pureVars

\* ------------------------------------------------------------ handleSubmit

\* The stream record the next accepted submit uses.
NextStream == CHOOSE s \in StreamIds :
    streams[s].pc = "idle" /\ \A t \in StreamIds : t < s => streams[t].pc # "idle"

ApologyMessage == ChatMessage("model", ApologyText, Undefined)

\* Mutant of FallbackMessage: the fallback carries the apology's text.
FallbackSaysSorry == ChatMessage("model", ApologyText, Undefined)

FallbackMessage == ChatMessage("model", FallbackText, Undefined)

\* The invocation has returned and its closure is gone: only how it ended
\* and how many model Messages it appended is kept.
Done(st, outcome, appended) ==
    [IdleStream EXCEPT !.pc = "done", !.outcome = outcome, !.appended = appended,
                       !.firstChunk = st.firstChunk]

\* Mutant of Finally: the flag is left as it is.
FinallyKeepsLoading(s) == isLoading

\* finally { setIsLoading(false) }: a no-op on an unmounted component.
Finally(s) == IF streams[s].orphan THEN isLoading ELSE FALSE

\* Mutant of NeedsFallback: the fallback is never appended.
NeverFallback(st) == FALSE

\* if (firstChunk) after the loop
NeedsFallback(st) == st.firstChunk

\* handleSubmit up to its first await, for typed text `in` and a chosen image
\* or none: the guard, the user Message, the send of a text-only turn on the
\* chat the ref holds now, then the render and its effects.
handleSubmit(in, img, ok) ==
    /\ ~crashed /\ user # NoUser
    /\ ~((Trim(in) = "" /\ ~img) \/ isLoading)
    /\ \E s \in StreamIds : streams[s].pc = "idle"
    /\ LET s == NextStream
           userMessage == ChatMessage("user", in, IF img THEN BlobUrl ELSE Null)
           sent == Append(messages, userMessage)
       IN  IF geminiChat = NoChat
           THEN \* throw new Error("Chat not initialized"), caught at once
                /\ Commit(user, Append(sent, ApologyMessage), ok)
                /\ isLoading' = FALSE
                /\ streams' = [streams EXCEPT ![s] = Done(@, "failed", 1)]
           ELSE /\ Commit(user, sent, ok)
                /\ isLoading' = TRUE
                /\ streams' = [streams EXCEPT
                       ![s].pc = IF img THEN "convert" ELSE "stream",
                       ![s].session = IF img THEN NoChat ELSE geminiChat,
                       ![s].owner = user,
                       ![s].prior = history(messages)]
    /\ UNCHANGED <<user, welcomeText, aliased, crashed>>
    /\ UNCHANGED pureVars

\* await fileToBase64(currentImage) resolves: sendMessageStream is called on
\* the chat the component's ref holds by now.
fileToBase64Resolved(s) ==
    /\ ~crashed
    /\ streams[s].pc = "convert"
    /\ streams' = [streams EXCEPT
           ![s].pc = "stream",
           ![s].session = IF streams[s].orphan THEN streams[s].ref ELSE geminiChat]
    /\ UNCHANGED <<user, messages, welcomeText, aliased, storage, writeOk, crashed,
                   isLoading, geminiChat>>
    /\ UNCHANGED pureVars

\* catch (error): the apology is appended; finally. Reached when
\* fileToBase64 rejects, sendMessageStream rejects or the stream throws.
Catch(s, ok) ==
    /\ ~crashed
    /\ streams[s].pc \in {"convert", "stream"}
    /\ Commit(user, Append(messages, ApologyMessage), ok)
    /\ isLoading' = Finally(s)
    /\ streams' = [streams EXCEPT ![s] = Done(@, "failed", @.appended + 1)]
    /\ UNCHANGED <<user, welcomeText, aliased, crashed>>
    /\ UNCHANGED pureVars

\* One turn of `for await (const chunk of stream)` with chunk.text = txt.
StreamChunk(s, txt, ok) ==
    /\ ~crashed
    /\ streams[s].pc = "stream"
    /\ Len(streams[s].received) < MaxFragments
    /\ LET st == streams[s]
           response == st.modelResponse \o txt
           last == Len(messages)
       IN  CASE ~Truthy(txt) ->
                  \* if (chunkText) is false: nothing is applied
                  /\ streams' = [streams EXCEPT ![s].received = Append(@, txt)]
                  /\ UNCHANGED <<messages, welcomeText, aliased, storage, writeOk,
                                 crashed, geminiChat>>
             [] Truthy(txt) /\ st.firstChunk ->
                  \* setMessages(prev => [...prev, { role: 'model', text: modelResponse }])
                  /\ Commit(user, Append(messages, ChatMessage("model", response, Undefined)), ok)
                  /\ streams' = [streams EXCEPT ![s].received = Append(@, txt),
                                                ![s].modelResponse = response,
                                                ![s].firstChunk = FALSE,
                                                ![s].appended = @ + 1,
                                                ![s].at = last + 1]
                  /\ UNCHANGED <<welcomeText, aliased, crashed>>
             [] Truthy(txt) /\ ~st.firstChunk /\ last = 0 ->
                  \* newMessages[-1] is undefined: the updater throws while React
                  \* renders App; with no error boundary the root is unmounted
                  /\ crashed' = TRUE
                  /\ streams' = [streams EXCEPT ![s].received = Append(@, txt),
                                                ![s].modelResponse = response]
                  /\ UNCHANGED <<messages, welcomeText, aliased, storage, writeOk,
                                 geminiChat>>
             [] OTHER ->
                  \* newMessages[newMessages.length - 1].text = modelResponse
                  /\ Commit(user, [messages EXCEPT ![last].text = response], ok)
                  /\ welcomeText' = IF aliased /\ last = 1 THEN response ELSE welcomeText
                  /\ streams' = [streams EXCEPT ![s].received = Append(@, txt),
                                                ![s].modelResponse = response]
                  /\ UNCHANGED <<aliased, crashed>>
    /\ UNCHANGED <<user, isLoading>>
    /\ UNCHANGED pureVars

\* The for await loop ends: the fallback if no chunk had text; finally.
StreamEnd(s, ok) ==
    /\ ~crashed
    /\ streams[s].pc = "stream"
    /\ IF NeedsFallback(streams[s])
       THEN Commit(user, Append(messages, FallbackMessage), ok)
       ELSE UNCHANGED <<messages, geminiChat, storage, writeOk>>
    /\ isLoading' = Finally(s)
    /\ streams' = [streams EXCEPT ![s] =
           Done(@, "completed", IF NeedsFallback(@) THEN @.appended + 1 ELSE @.appended)]
    /\ UNCHANGED <<user, welcomeText, aliased, crashed>>
    /\ UNCHANGED pureVars

\* ------------------------------------------------------------ specification

\* Each specification draws the outcome of a localStorage.setItem from a set
\* W (FALSE: it throws, e.g. over quota); with nobody signed in nothing is
\* written.
Writes(W) == IF user = NoUser THEN {TRUE} ELSE W

\* What the user submits: the typed text and whether an image is attached.
Submissions == {<<"", FALSE>>, <<" ", FALSE>>, <<"hi", FALSE>>, <<"", TRUE>>, <<"hi", TRUE>>}

\* Sessions of the first account, every storage write succeeding.
InitSingle == Init /\ \A u \in Uids \ {1} : storage[u] = NoItem

Next ==
    \/ SignIn(1, TRUE)
    \/ SignOut
    \/ handleNewChat(TRUE)
    \/ \E sub \in Submissions : handleSubmit(sub[1], sub[2], TRUE)
    \/ \E s \in StreamIds : fileToBase64Resolved(s)
    \/ \E s \in StreamIds : Catch(s, TRUE)
    \/ \E s \in StreamIds :
          \E txt \in {"", Fragment(Len(streams[s].received) + 1)} : StreamChunk(s, txt, TRUE)
    \/ \E s \in StreamIds : StreamEnd(s, TRUE)

Spec == InitSingle /\ [][Next]_vars

\* Sessions of every account, a storage write failing or not, one submit.
NextAccounts ==
    \/ \E u \in Uids, ok \in BOOLEAN : SignIn(u, ok)
    \/ SignOut
    \/ \E ok \in BOOLEAN : handleNewChat(ok)
    \/ \E sub \in Submissions, ok \in BOOLEAN :
          streams[1].pc = "idle" /\ handleSubmit(sub[1], sub[2], ok)
    \/ fileToBase64Resolved(1)
    \/ \E ok \in Writes(BOOLEAN) : Catch(1, ok)
    \/ \E ok \in Writes(BOOLEAN) :
          \E txt \in {"", Fragment(Len(streams[1].received) + 1)} : StreamChunk(1, txt, ok)
    \/ \E ok \in Writes(BOOLEAN) : StreamEnd(1, ok)

SpecAccounts == Init /\ [][NextAccounts]_vars

\* --------------------------------------------- the pure functions on their own

\* Messages the pure functions are fed: every shape of text (absent, empty,
\* blank, non-empty) and of imageUrl (absent, null, empty, transient, durable,
\* shorter than the prefix tested).
Samples ==
    { ChatMessage("user", "hi", Null),
      ChatMessage("user", "", BlobUrl),
      ChatMessage("user", " ", "blob:2"),
      ChatMessage("model", "Hello", Undefined),
      ChatMessage("user", "", ""),
      ChatMessage("user", "see", "https://x/a.png"),
      ChatMessage("model", Undefined, "blo"),
      ChatMessage("model", "hi", Undefined) }

Lists == UNION { [1..n -> Samples] : n \in 0..MaxLen }

InitPure ==
    /\ user = NoUser
    /\ messages = <<>>
    /\ welcomeText = GreetingText
    /\ aliased = FALSE
    /\ storage \in {[u \in Uids |-> NoItem], [u \in Uids |-> Malformed]}
    /\ writeOk = TRUE
    /\ crashed = FALSE
    /\ isLoading = FALSE
    /\ geminiChat = NoChat
    /\ streams = [s \in StreamIds |-> IdleStream]
    /\ pIn \in Lists /\ pUid \in Uids
    /\ pCtx = <<>> /\ pLoaded = <<>> /\ pPc = "in"

\* The history effect's computation on the list pIn.
Reconstruct ==
    /\ pPc = "in"
    /\ pCtx' = history(pIn)
    /\ pPc' = "ctx"
    /\ UNCHANGED <<pIn, pUid, pLoaded>>
    /\ UNCHANGED appVars

\* saveChatHistory(pUid, pIn), the write succeeding.
Save ==
    /\ pPc = "ctx"
    /\ storage' = saveChatHistory(storage, pUid, pIn, TRUE)
    /\ pPc' = "saved"
    /\ UNCHANGED <<pIn, pUid, pCtx, pLoaded>>
    /\ UNCHANGED <<user, messages, welcomeText, aliased, writeOk, crashed, isLoading,
                   geminiChat, streams>>

\* loadChatHistory(pUid).
Load ==
    /\ pPc = "saved"
    /\ pLoaded' = loadChatHistory(storage, pUid)
    /\ pPc' = "loaded"
    /\ UNCHANGED <<pIn, pUid, pCtx>>
    /\ UNCHANGED appVars

NextPure == Reconstruct \/ Save \/ Load

SpecPure == InitPure /\ [][NextPure]_vars

\* ------------------------------------------------------------------ claims

\* A message with non-empty text.
HasText(m) == m.text # Undefined /\ m.text # Null /\ Len(m.text) > 0

\* The position in pIn of the j-th message with non-empty text.
Qualifying(j) ==
    CHOOSE i \in 1..Len(pIn) :
        HasText(pIn[i]) /\ Cardinality({k \in 1..i : HasText(pIn[k])}) = j

\* C1: the context built from a Message list is exactly the subsequence of
\* its messages with non-empty text: as many entries as there are such
\* messages (so no more than the list has), the j-th entry carrying the role
\* and the text of the j-th such message; image-only messages are left out.
C1_HistoryIsTextSubsequence ==
    pPc # "in" =>
        /\ Len(pCtx) = Cardinality({i \in 1..Len(pIn) : HasText(pIn[i])})
        /\ Len(pCtx) <= Len(pIn)
        /\ \A j \in 1..Len(pCtx) :
              /\ pCtx[j].role = pIn[Qualifying(j)].role
              /\ pCtx[j].parts = <<[text |-> pIn[Qualifying(j)].text]>>

\* C1 witness: a list with an image-only message between two messages with
\* text has been reconstructed.
C1_Witness ==
    /\ pPc = "ctx"
    /\ Len(pIn) = 3
    /\ HasText(pIn[1]) /\ ~HasText(pIn[2]) /\ pIn[2].imageUrl = BlobUrl /\ HasText(pIn[3])
    /\ pIn[1] # pIn[3]
    /\ Len(pCtx) = 2

\* The image references of the samples that are transient object URLs.
Transient(url) == url \in {BlobUrl, "blob:2"}

\* C7: loading after a successful save returns a list of the same length and
\* order, each message with its role and text, and with its imageUrl, except
\* that a transient (blob:) reference comes back empty.
C7_RoundTrip ==
    pPc = "loaded" =>
        /\ Len(pLoaded) = Len(pIn)
        /\ \A i \in 1..Len(pIn) :
              /\ pLoaded[i].role = pIn[i].role
              /\ pLoaded[i].text = pIn[i].text
              /\ pLoaded[i].imageUrl =
                    IF Transient(pIn[i].imageUrl) THEN "" ELSE pIn[i].imageUrl

\* C7 witness: a list holding a transient reference, a durable one, a null
\* one and an absent one has been saved and loaded.
C7_Witness ==
    /\ pPc = "loaded"
    /\ \E i \in 1..Len(pIn) : Transient(pIn[i].imageUrl) /\ pLoaded[i].imageUrl = ""
    /\ \E i \in 1..Len(pIn) : pIn[i].imageUrl = "https://x/a.png"
    /\ \E i \in 1..Len(pIn) : pIn[i].imageUrl \in {Null, Undefined}

\* The concatenation of the chunk texts in r (an empty chunk adds nothing).
RECURSIVE Concat(_)
Concat(r) == IF r = <<>> THEN "" ELSE Concat(SubSeq(r, 1, Len(r) - 1)) \o r[Len(r)]

\* Stream s applies a fragment in this step.
Applies(s) ==
    /\ streams[s].pc = "stream" /\ streams'[s].pc = "stream"
    /\ Len(streams'[s].received) = Len(streams[s].received) + 1
    /\ streams'[s].received[Len(streams'[s].received)] # ""

\* Stream s ends in this step, in the way `outcome`.
Ends(s, outcome) ==
    /\ streams[s].pc \in {"convert", "stream"}
    /\ streams'[s].pc = "done" /\ streams'[s].outcome = outcome

\* C2 as stated: every invocation that has returned appended exactly one
\* model Message, however its fragment sequence ended.
C2_ExactlyOneAppended ==
    \A s \in StreamIds : streams[s].pc = "done" => streams[s].appended = 1

\* C2 amended: an invocation that has returned (the App still mounted)
\* appended exactly one model Message, except that one whose sequence raised
\* an error after a non-empty fragment had been applied appended two, the
\* streamed one and the apology.
C2_OneOrPartialPlusApology ==
    \A s \in StreamIds :
        streams[s].pc = "done" =>
            streams[s].appended =
                IF streams[s].outcome = "failed" /\ ~streams[s].firstChunk THEN 2 ELSE 1

\* C2 witness: one invocation has completed after appending its streamed
\* Message, another has failed before any fragment.
C2_Witness ==
    /\ \E s \in StreamIds :
          /\ streams[s].pc = "done" /\ streams[s].outcome = "completed"
          /\ ~streams[s].firstChunk /\ streams[s].appended = 1
    /\ \E s \in StreamIds :
          /\ streams[s].pc = "done" /\ streams[s].outcome = "failed"
          /\ streams[s].firstChunk /\ streams[s].appended = 1

\* C3 as stated: a step in which a stream applies a fragment leaves every
\* Message other than the one that stream appended as it was.
C3_OthersUntouched ==
    [][\A s \in StreamIds :
          Applies(s) =>
              \A i \in 1..Len(messages) :
                  i # streams[s].at => i <= Len(messages') /\ messages'[i] = messages[i]]_vars

\* C4 as stated: while a stream is running and the Message it appended is in
\* the list, that Message's text is the concatenation of the fragments the
\* stream has yielded so far.
C4_TextIsConcatenation ==
    \A s \in StreamIds :
        streams[s].pc = "stream" /\ streams[s].at # 0 =>
            messages[streams[s].at].text = Concat(streams[s].received)

\* C5: when a fragment sequence that never yielded a non-empty fragment
\* completes, the list grows by exactly one Message, the model Message with
\* the fixed fallback text, and that is the only Message the invocation appended.
C5_FallbackOnEmpty ==
    [][\A s \in StreamIds :
          Ends(s, "completed") /\ Concat(streams[s].received) = "" =>
              /\ messages' = Append(messages,
                     ChatMessage("model", "I'm sorry, I couldn't generate a response.", Undefined))
              /\ streams'[s].appended = 1]_vars

\* C5 witness: a sequence of empty fragments has completed and the fallback
\* is the last Message.
C5_Witness ==
    \E s \in StreamIds :
        /\ streams[s].pc = "done" /\ streams[s].outcome = "completed"
        /\ streams[s].firstChunk /\ streams[s].appended = 1
        /\ Len(messages) > 0 /\ messages[Len(messages)].text = FallbackText

\* C6: when fileToBase64, sendMessageStream or the stream raises an error,
\* the list grows by exactly one Message, the apology; the invocation is over
\* (it applies no later fragment and sends nothing again); and the loading
\* flag of the component that submitted, if still mounted, is false.
C6_ErrorAppendsApology ==
    [][\A s \in StreamIds :
          /\ Ends(s, "failed") =>
                /\ messages' = Append(messages,
                       ChatMessage("model", "Sorry, something went wrong. Please try again.", Undefined))
                /\ ~streams[s].orphan => ~isLoading'
          /\ streams[s].pc = "done" => streams'[s] = streams[s]]_vars

\* C6 witness: a stream failed after a fragment had been applied, the apology
\* is the last Message and the component accepts a submit again.
C6_Witness ==
    \E s \in StreamIds :
        /\ streams[s].pc = "done" /\ streams[s].outcome = "failed" /\ ~streams[s].firstChunk
        /\ user # NoUser /\ ~isLoading
        /\ Len(messages) > 1 /\ messages[Len(messages)].text = ApologyText
        /\ messages[Len(messages) - 1].text = "Hel"

\* C8 as stated: every Message of the list has a non-empty text or a
\* non-empty imageUrl.
C8_TextOrImage ==
    \A i \in 1..Len(messages) : Truthy(messages[i].text) \/ Truthy(messages[i].imageUrl)

\* C9: while an account is signed in and the last storage write did not
\* fail, what is stored under its key reads back as the current list with
\* every transient image reference blanked.
C9_SavedAfterEveryMutation ==
    user # NoUser /\ writeOk =>
        /\ storage[user].kind = "json"
        /\ loadChatHistory(storage, user) =
              [i \in 1..Len(messages) |->
                  IF messages[i].imageUrl = BlobUrl
                  THEN ChatMessage(messages[i].role, messages[i].text, "")
                  ELSE messages[i]]

\* C9 witness: a user Message with an image, a streamed Message whose text
\* was replaced by a later fragment, saved after an earlier write had failed.
C9_Witness ==
    /\ user # NoUser /\ writeOk
    /\ \E i \in 1..Len(messages) : messages[i].imageUrl = BlobUrl
    /\ \E i \in 1..Len(messages) : messages[i].text = "Hello"

\* C10 as stated: a sign-in sets the list to the stored list, or, when
\* nothing is stored or what is stored does not parse, to exactly the greeting.
C10_SignInLoadsOrGreets ==
    [][user = NoUser /\ user' # NoUser =>
          messages' =
              IF storage[user'].kind = "json" /\ Len(storage[user'].text) > 0
              THEN loadChatHistory(storage, user')
              ELSE <<ChatMessage("model", GreetingText, Undefined)>>]_vars

\* Stream s takes a step of its own (a conversion, a chunk, its end).
Acts(s) ==
    /\ streams[s].pc \in {"convert", "stream"}
    /\ user' = user
    /\ \/ streams'[s].pc # streams[s].pc
       \/ streams'[s].received # streams[s].received

\* C11 as stated: with nobody signed in the list is empty, and a stream
\* opened under one account changes neither the list shown nor anything
\* stored once that account is no longer the one signed in; the list and
\* what is stored under the signed-in account's key hold no Message a
\* stream of another account appended.
C11_AccountsIsolated ==
    [][/\ user' = NoUser => messages' = <<>>
       /\ \A s \in StreamIds :
             Acts(s) /\ streams[s].owner # user =>
                 messages' = messages /\ storage' = storage]_vars

\* C12 as stated: the chat a turn has been sent on was started from the
\* context of the messages that preceded the turn, so its history does not
\* already hold the user Message being sent; for a text-only submit and for
\* a submit with an image alike.
C12_SessionFromPriorContext ==
    \A s \in StreamIds :
        streams[s].pc = "stream" => streams[s].session.history = streams[s].prior

====
